---- MODULE Spec2Model ----
(***************************************************************************)
(* Invoicing_Manager (src/app.py): the invoice store behind the Flask      *)
(* handlers create_invoice, modify_invoice, delete_invoice, list_invoices, *)
(* categorize and generate_pdf, run by concurrent requests against one     *)
(* PostgreSQL database.                                                    *)
(*                                                                         *)
(* Every request has its own connection (get_db keeps it in flask.g) and   *)
(* so its own transaction, at PostgreSQL's default isolation level READ    *)
(* COMMITTED: each SQL statement reads the rows committed when it runs,    *)
(* rows written by a transaction are invisible to the others until         *)
(* db.commit(), a row updated or deleted by a transaction is locked until  *)
(* that transaction ends, and closing a connection discards what was not   *)
(* committed.  A handler is therefore one action per point at which it     *)
(* reads or locks committed rows; the INSERT statements of a handler, whose*)
(* rows nobody else can see or wait for, are part of its commit step.      *)
(***************************************************************************)
EXTENDS Integers, Sequences, FiniteSets, TLC

\* Number of requests served in one run.
MaxReq == 2
MaxRaceReq == 3
MaxCategorizeReq == 1
MaxPdfReq == 2
MaxReadReq == 2
MaxCreateReq == 2
MaxExportReq == 3

Users == {"A", "B"}
Procs == {"p1", "p2"}
SlotBefore(q, p) == q = "p1" /\ p = "p2"

(***************************************************************************)
(* JSON values of a request body, and Python's reading of them.            *)
(***************************************************************************)
Absent == [t |-> "absent", n |-> 0, s |-> ""]
Null == [t |-> "null", n |-> 0, s |-> ""]
Num(x) == [t |-> "num", n |-> x, s |-> ""]
Str(x) == [t |-> "str", n |-> 0, s |-> x]

\* dict.get(key): None when the key is missing.
Get(v) == IF v.t = "absent" THEN Null ELSE v
\* dict.get(key, default)
GetDefault(v, d) == IF v.t = "absent" THEN d ELSE v

\* Python truth value: None, 0 and "" are false.
Truthy(v) ==
  CASE v.t = "num" -> v.n # 0
    [] v.t = "str" -> v.s # ""
    [] OTHER -> FALSE

Digits == <<"0", "1", "2", "3", "4", "5", "6", "7", "8", "9">>
IsDigit(c) == \E d \in 1..10 : Digits[d] = c
DigitVal(c) == (CHOOSE d \in 1..10 : Digits[d] = c) - 1
Char(s, i) == SubSeq(s, i, i)
AllDigits(s) == Len(s) > 0 /\ \A i \in 1..Len(s) : IsDigit(Char(s, i))

RECURSIVE DecimalValue(_)
DecimalValue(s) ==
  IF Len(s) = 0 THEN 0
  ELSE 10 * DecimalValue(SubSeq(s, 1, Len(s) - 1)) + DigitVal(Char(s, Len(s)))

\* float(v) and int(v) on the values the model sends: a number, a string of
\* decimal digits, or something that raises ValueError/TypeError.
PyFloat(v) ==
  CASE v.t = "num" -> [ok |-> TRUE, val |-> v.n]
    [] v.t = "str" /\ AllDigits(v.s) -> [ok |-> TRUE, val |-> DecimalValue(v.s)]
    [] OTHER -> [ok |-> FALSE, val |-> 0]

PyInt(v) == PyFloat(v)

\* A REAL column holds an IEEE single: 24 bits of mantissa, round to nearest
\* even.  Exact below 2^24; between 2^24 and 2^25 only even numbers exist.
Float4Exact == 16777216

ToReal(x) ==
  IF x < Float4Exact THEN x
  ELSE LET q == x \div 2
       IN IF x % 2 = 0 THEN x
          ELSE IF q % 2 = 0 THEN 2 * q ELSE 2 * (q + 1)

(***************************************************************************)
(* Request bodies.                                                         *)
(***************************************************************************)
Item(d, q, u) == [description |-> d, quantity |-> q, unit_price |-> u]
Customer(n, a, e, its) == [name |-> n, address |-> a, email |-> e, items |-> its]

EmptyBody ==
  [empty |-> TRUE, invoice_number |-> Absent, creation_date |-> Absent,
   company_name |-> Absent, company_address |-> Absent, company_email |-> Absent,
   total_amount |-> Absent, customers |-> <<>>]

\* Two customers, the first with two items.
FullBody ==
  [empty |-> FALSE, invoice_number |-> Absent, creation_date |-> Str("2024-01-05"),
   company_name |-> Str("Acme"), company_address |-> Str("1 Main St"),
   company_email |-> Str("acme@example.com"), total_amount |-> Num(150),
   customers |->
     <<Customer(Str("Ann"), Str("2 Oak Rd"), Str("ann@example.com"),
                <<Item(Str("widget"), Num(2), Num(50)), Item(Str("bolt"), Num(1), Num(50))>>),
       Customer(Str("Bob"), Str("3 Elm Rd"), Str("bob@example.com"), <<>>)>>]

\* A header with no customers; the total needs more than 24 bits.
BareBody ==
  [empty |-> FALSE, invoice_number |-> Absent, creation_date |-> Str("2024-02-01"),
   company_name |-> Str("Bolt Ltd"), company_address |-> Str("9 High St"),
   company_email |-> Str("bolt@example.com"), total_amount |-> Num(16777217),
   customers |-> <<>>]

\* One customer whose second item has a quantity int() rejects.
BadItemBody ==
  [empty |-> FALSE, invoice_number |-> Absent, creation_date |-> Str("2024-01-20"),
   company_name |-> Str("Cog Inc"), company_address |-> Str("5 Low St"),
   company_email |-> Str("cog@example.com"), total_amount |-> Num(30),
   customers |->
     <<Customer(Str("Eve"), Str("4 Ash Rd"), Str("eve@example.com"),
                <<Item(Str("nut"), Num(3), Num(10)), Item(Str("gear"), Str("many"), Num(7))>>)>>]

\* A header whose creation_date is no date of the calendar.
UndatedBody ==
  [empty |-> FALSE, invoice_number |-> Absent, creation_date |-> Str("2024-02-30"),
   company_name |-> Str("Dusk AG"), company_address |-> Str("8 Bay St"),
   company_email |-> Str("dusk@example.com"), total_amount |-> Num(5),
   customers |-> <<>>]

\* A header with the invoice number given as the string "0", which the
\* INTEGER column stores as 0.
ZeroBody ==
  [empty |-> FALSE, invoice_number |-> Str("0"), creation_date |-> Str("2024-01-20"),
   company_name |-> Str("Zed Co"), company_address |-> Str("7 Mill Ln"),
   company_email |-> Str("zed@example.com"), total_amount |-> Num(20),
   customers |-> <<>>]

\* Descriptions of 50, 45 and 46 characters; the total is not the sum of the
\* lines (2 x 30 + 1 x 5 + 3 x 4 = 77).
LongBody ==
  [empty |-> FALSE, invoice_number |-> Absent, creation_date |-> Str("2024-03-09"),
   company_name |-> Str("Fern Oy"), company_address |-> Str("6 Pier Rd"),
   company_email |-> Str("fern@example.com"), total_amount |-> Num(80),
   customers |->
     <<Customer(Str("Gus"), Str("1 Fir Rd"), Str("gus@example.com"),
                <<Item(Str("stainless hexagon socket head cap screw M8 x 40 mm"), Num(2), Num(30)),
                  Item(Str("zinc plated flat washer for M8 bolts, pack 10"), Num(1), Num(5))>>),
       Customer(Str("Hal"), Str(""), Null,
                <<Item(Str("nylon insert lock nut M8 coarse thread, pack 5"), Num(3), Num(4))>>)>>]

\* A complete header; one customer with no items, one whose item has no
\* description.
PlainItemBody ==
  [empty |-> FALSE, invoice_number |-> Absent, creation_date |-> Str("2024-04-02"),
   company_name |-> Str("Iris KG"), company_address |-> Str("2 Quay Rd"),
   company_email |-> Str("iris@example.com"), total_amount |-> Num(12),
   customers |->
     <<Customer(Str("Jan"), Str("5 Elm Rd"), Str("jan@example.com"), <<>>),
       Customer(Str("Kim"), Absent, Absent, <<Item(Absent, Num(3), Num(4))>>)>>]

\* A header with a date and a company name only, and no customers.
BriefBody ==
  [empty |-> FALSE, invoice_number |-> Absent, creation_date |-> Str("2024-04-03"),
   company_name |-> Str("Lark SA"), company_address |-> Absent, company_email |-> Absent,
   total_amount |-> Absent, customers |-> <<>>]

\* ZeroBody with the invoice number given as the JSON number 0.
NoughtBody == [ZeroBody EXCEPT !.invoice_number = Num(0)]

BodyNames == {"empty", "full", "bare", "baditem", "zero"}
\* The bodies of the runs that look at the invoice number alone.
NumberBodyNames == {"empty", "full", "zero", "nought"}

Body(name) ==
  CASE name = "empty" -> EmptyBody
    [] name = "full" -> FullBody
    [] name = "bare" -> BareBody
    [] name = "baditem" -> BadItemBody
    [] name = "zero" -> ZeroBody
    [] name = "nought" -> NoughtBody

\* Invoice numbers a request URL may name.
UrlNumbers == {1000}
\* Readings of the server's clock when a document is written.
Times == {1, 2}
Periods == {"day", "month", "year"}

(***************************************************************************)
(* The database: the tables of init_db, the three id sequences, and for    *)
(* every running request the row locks its open transaction holds.         *)
(***************************************************************************)
VARIABLES
  db,        \* committed rows: [invoices, customers, items]
  seq,       \* next value of the SERIAL sequences: [inv, cust, item]
  pc,        \* per request slot: where its handler stands
  req,       \* per request slot: the request being served (or the last one)
  loc,       \* per request slot: the handler's local variables
  tx,        \* per request slot: rows locked by its open transaction
  resp,      \* per request slot: the last response sent
  nreq,      \* requests still to arrive
  hist       \* history: every aggregate ever committed (aggs), and for each
             \* invoice id the request that last wrote it (origin)

vars == <<db, seq, pc, req, loc, tx, resp, nreq, hist>>

EmptyDB == [invoices |-> {}, customers |-> {}, items |-> {}]

Ids(rows) == {r.id : r \in rows}

\* FOREIGN KEY ... ON DELETE CASCADE of customers.invoice_id and
\* items.customer_id: rows that go with the deleted invoices / customers.
CascadeCustomers(d, invIds) == {c \in d.customers : c.invoice_id \in invIds}
CascadeItems(d, custIds) == {i \in d.items : i.customer_id \in custIds}

NoWrites ==
  [updInv |-> {}, delInv |-> {}, delCust |-> {}, delItem |-> {},
   insInv |-> {}, insCust |-> {}, insItem |-> {}]

\* The committed rows once the writes w of a transaction are applied.
ApplyWrites(d, w) ==
  LET goneCust == {c \in d.customers : c.id \in w.delCust} \cup CascadeCustomers(d, w.delInv)
      goneItem == {i \in d.items : i.id \in w.delItem} \cup CascadeItems(d, Ids(goneCust))
      kept == {r \in d.invoices : r.id \notin w.delInv}
      updated == {IF \E u \in w.updInv : u.id = r.id
                  THEN CHOOSE u \in w.updInv : u.id = r.id
                  ELSE r : r \in kept}
  IN [invoices |-> updated \cup w.insInv,
      customers |-> (d.customers \ goneCust) \cup w.insCust,
      items |-> (d.items \ goneItem) \cup w.insItem]

\* db.commit()
commit(d, w) == ApplyWrites(d, w)


\* A rollback that leaves the rows written so far in place.
rollback_keeps(d, w) == ApplyWrites(d, w)

\* db.rollback()
rollback(d, w) == d


\* A connection that commits what is pending when it is closed.
close_connection_commits(d, w) == ApplyWrites(d, w)

\* close_connection: db.close() at the end of the request; psycopg2 closes
\* without committing, so the server discards the open transaction.
close_connection(d, w) == d

\* One aggregate of the committed rows d, as a value: the invoice row with
\* its customers and their items.
Aggregate(d, r) ==
  [inv |-> r,
   customers |-> {[row |-> c, items |-> {i \in d.items : i.customer_id = c.id}] :
                    c \in {c \in d.customers : c.invoice_id = r.id}}]

Aggregates(d) == {Aggregate(d, r) : r \in d.invoices}

(***************************************************************************)
(* Rows written by create_invoice and modify_invoice.                      *)
(***************************************************************************)
row_of_header(id, user, number, b, total) ==
  [id |-> id, invoice_number |-> number, creation_date |-> Get(b.creation_date),
   company_name |-> Get(b.company_name), company_address |-> Get(b.company_address),
   company_email |-> Get(b.company_email), total_amount |-> ToReal(total), user_id |-> user]

\* int(it.get("quantity", 1)) and float(it.get("unit_price", 0)) both return.
ItemParses(it) ==
  /\ PyInt(GetDefault(it.quantity, Num(1))).ok
  /\ PyFloat(GetDefault(it.unit_price, Num(0))).ok

Min(S) == CHOOSE x \in S : \A y \in S : x <= y

\* Index of the first item whose conversion raises, 0 when none does.
FirstBadItem(its) ==
  LET bad == {j \in 1..Len(its) : ~ItemParses(its[j])}
  IN IF bad = {} THEN 0 ELSE Min(bad)

FirstBadCustomer(custs) ==
  LET bad == {k \in 1..Len(custs) : FirstBadItem(custs[k].items) # 0}
  IN IF bad = {} THEN 0 ELSE Min(bad)

\* The loop "for c in data.get('customers', []): INSERT customer; for it in
\* c.get('items', []): INSERT item", run until it ends or a conversion
\* raises: the rows inserted so far, the sequence values used, and whether
\* the loop ended.
InsertedItems(custs, k) ==
  LET bad == FirstBadCustomer(custs)
  IN IF bad = 0 \/ k < bad THEN Len(custs[k].items)
     ELSE IF k = bad THEN FirstBadItem(custs[k].items) - 1 ELSE 0

RECURSIVE ItemsBefore(_, _)
ItemsBefore(custs, k) ==
  IF k <= 1 THEN 0 ELSE ItemsBefore(custs, k - 1) + InsertedItems(custs, k - 1)

insert_children(inv_id, custs, s) ==
  LET bad == FirstBadCustomer(custs)
      last == IF bad = 0 THEN Len(custs) ELSE bad
      cid(k) == s.cust + k - 1
  IN [ok |-> bad = 0,
      insCust |-> {[id |-> cid(k), invoice_id |-> inv_id, name |-> Get(custs[k].name),
                    address |-> Get(custs[k].address), email |-> Get(custs[k].email)] :
                     k \in 1..last},
      insItem |-> UNION {{[id |-> s.item + ItemsBefore(custs, k) + j - 1,
                           customer_id |-> cid(k),
                           description |-> Get(custs[k].items[j].description),
                           quantity |-> PyInt(GetDefault(custs[k].items[j].quantity, Num(1))).val,
                           unit_price |-> ToReal(PyFloat(GetDefault(custs[k].items[j].unit_price,
                                                                     Num(0))).val)] :
                            j \in 1..InsertedItems(custs, k)} : k \in 1..last},
      seq |-> [inv |-> s.inv, cust |-> s.cust + last,
               item |-> s.item + ItemsBefore(custs, last + 1)]]

(***************************************************************************)
(* Requests.                                                               *)
(***************************************************************************)
NoReq == [op |-> "none", user |-> "A", num |-> 0, body |-> "empty", period |-> "month"]
NoLoc ==
  [invoice_number |-> Null, inv_id |-> 0, rows |-> <<>>, i |-> 0, j |-> 0, conn |-> "none"]
NoTx == [lockInv |-> {}, delCust |-> {}, delItem |-> {}]
NoResp ==
  [status |-> 0, error |-> "", raised |-> "none", invoice_number |-> Null, inv_id |-> 0, data |-> <<>>,
   pdf |-> <<>>, req |-> NoReq]

Response(status, error, raised) ==
  [NoResp EXCEPT !.status = status, !.error = error, !.raised = raised]

Request(op, user, num, body, period) ==
  [op |-> op, user |-> user, num |-> num, body |-> body, period |-> period]

\* get_db: the connection kept in g for this request (conn), opened by the
\* first call: load_user makes it for every logged-in request.
get_db(conn) == IF conn = "none" THEN "open" ELSE conn

\* A teardown that leaves the connection of the request open.
db_close_skipped(conn) == conn

\* close_connection, run by Flask when the application context of a request
\* is torn down, however the handler ended: db.close(), and g is gone.
db_close(conn) == "none"

\* A request arrives at an idle slot; the slots being alike, the first idle
\* one serves it.
Start(p) ==
  /\ pc[p] = "idle"
  /\ \A q \in Procs : pc[q] = "idle" => ~SlotBefore(q, p)
  /\ nreq > 0
  /\ nreq' = nreq - 1

\* The handler of request r goes on to its next statement.
Goto(p, r, label, l) ==
  /\ pc' = [pc EXCEPT ![p] = label]
  /\ req' = [req EXCEPT ![p] = r]
  /\ loc' = [loc EXCEPT ![p] = [l EXCEPT !.conn = get_db(l.conn)]]

\* Which request wrote each invoice last, once request r got the answer a.
OriginAfter(r, a) ==
  IF (r.op = "create" /\ a.status = 201) \/ (r.op = "replace" /\ a.status = 200)
  THEN {o \in hist.origin : o.id # a.inv_id}
         \cup {[id |-> a.inv_id, op |-> r.op, body |-> r.body]}
  ELSE hist.origin

\* The handler of request r returns a (or raises, and Flask answers a)
\* having left the committed rows d and the uncommitted writes pending;
\* teardown then runs close_connection.  Only the latest response is kept.
Finish(p, r, d, pending, a) ==
  /\ db' = close_connection(d, pending)
  /\ hist' = [aggs |-> hist.aggs \cup Aggregates(db'), origin |-> OriginAfter(r, a)]
  /\ pc' = [pc EXCEPT ![p] = "idle"]
  /\ loc' = [loc EXCEPT ![p] = [NoLoc EXCEPT !.conn = db_close(get_db(loc[p].conn))]]
  /\ tx' = [tx EXCEPT ![p] = NoTx]
  /\ req' = [req EXCEPT ![p] = NoReq]
  /\ resp' = [q \in Procs |-> IF q = p THEN [a EXCEPT !.req = r] ELSE NoResp]

(***************************************************************************)
(* create_invoice                                                          *)
(***************************************************************************)
Max(S) == CHOOSE x \in S : \A y \in S : x >= y

\* SELECT MAX(invoice_number) ... WHERE user_id; "mx if result and mx else
\* 999"; mx + 1.
next_invoice_number(d, user) ==
  LET mine == {r.invoice_number : r \in {r \in d.invoices : r.user_id = user}}
      mx == IF mine = {} \/ Max(mine) = 0 THEN 999 ELSE Max(mine)
  IN mx + 1


\* The table made without its UNIQUE(user_id, invoice_number) constraint.
unique_violation_off(d, user, number) == FALSE

\* UNIQUE(user_id, invoice_number): the INSERT would make a second row with
\* this pair.
unique_violation(d, user, number) ==
  \E r \in d.invoices : r.user_id = user /\ r.invoice_number = number

\* An INTEGER parameter as PostgreSQL reads it: a number, or a quoted string
\* of digits.
SqlInteger(v) == PyInt(v)

\* A body check that lets every body through.
not_data_never(data) == FALSE

\* Line 409: "if not data", true of a missing body and of an empty object.
not_data(data) == data.empty

\* Lines 407-425: the body check and the choice of the invoice number, on a
\* body out of bodies.
create_invoice_with(p, bodies) ==
  \E u \in Users, b \in bodies :
    /\ Start(p)
    /\ IF not_data(Body(b))
       THEN Finish(p, Request("create", u, 0, b, "month"), db, NoWrites, Response(400, "No JSON body", "none"))
       ELSE LET given == Get(Body(b).invoice_number)
                number == IF Truthy(given) THEN given
                          ELSE Num(next_invoice_number(db, u))
            IN /\ Goto(p, Request("create", u, 0, b, "month"), "create_insert", [NoLoc EXCEPT !.invoice_number = number])
               /\ UNCHANGED <<db, hist, tx, resp>>
    /\ UNCHANGED seq

create_invoice_begin(p) == create_invoice_with(p, BodyNames)

\* Lines 427-457: the three kinds of INSERT, then commit, or rollback when
\* any of them raised.
create_invoice_insert(p) ==
  /\ pc[p] = "create_insert"
  /\ LET b == Body(req[p].body)
         u == req[p].user
         f == PyFloat(GetDefault(b.total_amount, Num(0)))
         total_amount == IF f.ok THEN f.val ELSE 0
         number == SqlInteger(loc[p].invoice_number)
         header == row_of_header(seq.inv, u, number.val, b, total_amount)
         inserted == number.ok /\ ~unique_violation(db, u, number.val)
         s1 == IF number.ok THEN [seq EXCEPT !.inv = seq.inv + 1] ELSE seq
         ch == insert_children(seq.inv, b.customers, s1)
         w == [NoWrites EXCEPT !.insInv = {header}, !.insCust = ch.insCust,
                               !.insItem = ch.insItem]
     IN IF ~inserted
        THEN /\ seq' = s1
             /\ Finish(p, req[p], rollback(db, NoWrites), NoWrites,
                       Response(500, "Failed to create invoice",
                                IF number.ok THEN "UniqueViolation" ELSE "DataError"))
        ELSE /\ seq' = ch.seq
             /\ IF ch.ok
                THEN Finish(p, req[p], commit(db, w), NoWrites,
                            [Response(201, "", "none") EXCEPT
                               !.invoice_number = loc[p].invoice_number,
                               !.inv_id = seq.inv])
                ELSE Finish(p, req[p], rollback(db, w), NoWrites,
                            [Response(500, "Failed to create invoice", "ValueError") EXCEPT !.inv_id = seq.inv])
  /\ UNCHANGED nreq

(***************************************************************************)
(* Row locks.  A statement that updates or deletes a row another open      *)
(* transaction has updated or deleted waits until that transaction ends.   *)
(***************************************************************************)
Others(p) == Procs \ {p}


\* The lookup without "AND user_id=%s".
find_invoice_any_user(d, user, number) ==
  LET hit == {r \in d.invoices : r.invoice_number = number}
  IN IF hit = {} THEN 0 ELSE (CHOOSE r \in hit : TRUE).id

\* SELECT id FROM invoices WHERE invoice_number=%s AND user_id=%s: 0 when no
\* row matches.
find_invoice(d, user, number) ==
  LET hit == {r \in d.invoices : r.user_id = user /\ r.invoice_number = number}
  IN IF hit = {} THEN 0 ELSE (CHOOSE r \in hit : TRUE).id

\* The requests whose locks keep p's statement on invoice row id waiting.
InvoiceHolders(p, id) == {q \in Others(p) : id \in tx[q].lockInv}

\* The rows "SELECT id FROM customers WHERE invoice_id; DELETE FROM items
\* WHERE customer_id (each); DELETE FROM customers WHERE invoice_id" remove.
ChildCustomers(d, inv_id) == {c \in d.customers : c.invoice_id = inv_id}
ChildItems(d, inv_id) == CascadeItems(d, Ids(ChildCustomers(d, inv_id)))

ChildHolders(p, inv_id) ==
  {q \in Others(p) :
     \/ Ids(ChildCustomers(db, inv_id)) \cap tx[q].delCust # {}
     \/ Ids(ChildItems(db, inv_id)) \cap tx[q].delItem # {}}

\* The open transaction of p deletes the children of its invoice.
delete_children(p) ==
  /\ ChildHolders(p, loc[p].inv_id) = {}
  /\ tx' = [tx EXCEPT ![p].delCust = @ \cup Ids(ChildCustomers(db, loc[p].inv_id)),
                      ![p].delItem = @ \cup Ids(ChildItems(db, loc[p].inv_id))]

\* What p's transaction has deleted so far, as writes.
PendingDeletes(p) ==
  [NoWrites EXCEPT !.delCust = tx[p].delCust, !.delItem = tx[p].delItem]

(***************************************************************************)
(* modify_invoice                                                          *)
(***************************************************************************)
\* Lines 462-472: the body check and the lookup of the caller's invoice.
modify_invoice_begin(p) ==
  \E u \in Users, n \in UrlNumbers, b \in BodyNames :
    /\ Start(p)
    /\ IF Body(b).empty
       THEN Finish(p, Request("replace", u, n, b, "month"), db, NoWrites, Response(400, "No JSON body", "none"))
       ELSE IF find_invoice(db, u, n) = 0
       THEN Finish(p, Request("replace", u, n, b, "month"), db, NoWrites, Response(404, "Invoice not found", "none"))
       ELSE /\ Goto(p, Request("replace", u, n, b, "month"), "replace_update", [NoLoc EXCEPT !.inv_id = find_invoice(db, u, n)])
            /\ UNCHANGED <<db, hist, tx, resp>>
    /\ UNCHANGED seq

\* Lines 475-476: UPDATE invoices ... WHERE id=inv_id.  float() of the total
\* is not guarded here: when it raises, Flask answers 500.
modify_invoice_update(p) ==
  /\ pc[p] = "replace_update"
  /\ IF ~PyFloat(GetDefault(Body(req[p].body).total_amount, Num(0))).ok
     THEN Finish(p, req[p], db, NoWrites, [Response(500, "Internal Server Error", "ValueError") EXCEPT !.inv_id = loc[p].inv_id])
     ELSE /\ InvoiceHolders(p, loc[p].inv_id) = {}
          /\ tx' = [tx EXCEPT ![p].lockInv =
                      IF loc[p].inv_id \in Ids(db.invoices) THEN {loc[p].inv_id} ELSE {}]
          /\ Goto(p, req[p], "replace_delete", loc[p])
          /\ UNCHANGED <<db, hist, resp>>
  /\ UNCHANGED <<seq, nreq>>

\* Lines 478-483.
modify_invoice_delete(p) ==
  /\ pc[p] = "replace_delete"
  /\ delete_children(p)
  /\ Goto(p, req[p], "replace_insert", loc[p])
  /\ UNCHANGED <<db, hist, resp, seq, nreq>>

\* The customers table made without its foreign key.
foreign_key_violation_off(held, custs) == FALSE

\* customers.invoice_id REFERENCES invoices(id): the first INSERT into
\* customers fails when the invoice row is gone, which it is exactly when
\* the UPDATE of this transaction found no row to lock.
foreign_key_violation(held, custs) == ~held /\ Len(custs) > 0

\* Lines 485-494: the INSERTs and the commit.  An INSERT into customers
\* fails on its foreign key when the invoice row is gone; nothing catches an
\* exception here, so the transaction is left to close_connection.
modify_invoice_insert(p) ==
  /\ pc[p] = "replace_insert"
  /\ LET b == Body(req[p].body)
         id == loc[p].inv_id
         held == id \in tx[p].lockInv
         old == CHOOSE r \in db.invoices : r.id = id
         header == row_of_header(id, old.user_id, old.invoice_number, b,
                                 PyFloat(GetDefault(b.total_amount, Num(0))).val)
         fk_violation == foreign_key_violation(held, b.customers)
         ch == insert_children(id, b.customers, seq)
         upd == [PendingDeletes(p) EXCEPT !.updInv = IF held THEN {header} ELSE {}]
         w == [upd EXCEPT !.insCust = ch.insCust, !.insItem = ch.insItem]
     IN IF fk_violation
        THEN /\ seq' = [seq EXCEPT !.cust = seq.cust + 1]
             /\ Finish(p, req[p], db, upd, [Response(500, "Internal Server Error", "ForeignKeyViolation") EXCEPT !.inv_id = id])
        ELSE /\ seq' = ch.seq
             /\ IF ch.ok
                THEN Finish(p, req[p], commit(db, w), NoWrites, [Response(200, "", "none") EXCEPT !.inv_id = id])
                ELSE Finish(p, req[p], db, w, [Response(500, "Internal Server Error", "ValueError") EXCEPT !.inv_id = id])
  /\ UNCHANGED nreq

(***************************************************************************)
(* delete_invoice                                                          *)
(***************************************************************************)
\* Lines 499-505.
delete_invoice_begin(p) ==
  \E u \in Users, n \in UrlNumbers :
    /\ Start(p)
    /\ IF find_invoice(db, u, n) = 0
       THEN Finish(p, Request("delete", u, n, "empty", "month"), db, NoWrites, Response(404, "Invoice not found", "none"))
       ELSE /\ Goto(p, Request("delete", u, n, "empty", "month"), "delete_children", [NoLoc EXCEPT !.inv_id = find_invoice(db, u, n)])
            /\ UNCHANGED <<db, hist, tx, resp>>
    /\ UNCHANGED seq

\* Lines 507-512.
delete_invoice_children(p) ==
  /\ pc[p] = "delete_children"
  /\ delete_children(p)
  /\ Goto(p, req[p], "delete_invoice", loc[p])
  /\ UNCHANGED <<db, hist, resp, seq, nreq>>


\* Lines 507-513: everything delete_invoice deletes.
delete_writes(p) == [PendingDeletes(p) EXCEPT !.delInv = {loc[p].inv_id}]

\* Lines 513-515: DELETE FROM invoices WHERE id=inv_id, which cascades to
\* the customers the invoice has by now, and the commit.  The statement
\* locks the invoice row first; while a customer it cascades to is locked
\* by another transaction it waits, holding that lock.
delete_invoice_commit(p) ==
  /\ pc[p] = "delete_invoice"
  /\ InvoiceHolders(p, loc[p].inv_id) = {}
  /\ IF ChildHolders(p, loc[p].inv_id) # {}
     THEN /\ loc[p].inv_id \notin tx[p].lockInv
          /\ tx' = [tx EXCEPT ![p].lockInv = {loc[p].inv_id}]
          /\ UNCHANGED <<db, hist, pc, req, loc, resp>>
     ELSE Finish(p, req[p], commit(db, delete_writes(p)), NoWrites,
                 [Response(200, "", "none") EXCEPT !.inv_id = loc[p].inv_id])
  /\ UNCHANGED <<seq, nreq>>

(***************************************************************************)
(* Deadlock: two transactions each waiting for a lock of the other.        *)
(* PostgreSQL aborts one of them; its handler raises and Flask answers 500.*)
(***************************************************************************)
WaitsFor(p) ==
  CASE pc[p] = "replace_update" -> InvoiceHolders(p, loc[p].inv_id)
    [] pc[p] \in {"replace_delete", "delete_children"} -> ChildHolders(p, loc[p].inv_id)
    [] pc[p] = "delete_invoice" ->
         InvoiceHolders(p, loc[p].inv_id) \cup ChildHolders(p, loc[p].inv_id)
    [] OTHER -> {}

deadlock_abort(p) ==
  /\ \E q \in WaitsFor(p) : p \in WaitsFor(q)
  /\ Finish(p, req[p], db, PendingDeletes(p), [Response(500, "Internal Server Error", "DeadlockDetected") EXCEPT !.inv_id = loc[p].inv_id])
  /\ UNCHANGED <<seq, nreq>>

(***************************************************************************)
(* Reading: list_invoices, generate_pdf and categorize.  Each SELECT is a  *)
(* statement of its own and reads the rows committed when it runs.         *)
(***************************************************************************)
\* A query result: the rows of S in some order.  Without ORDER BY the order
\* is whatever the scan yields.
Orderings(S) ==
  {f \in [1..Cardinality(S) -> S] : \A i, j \in 1..Cardinality(S) : f[i] = f[j] => i = j}

\* Byte order of the characters creation_date strings are made of.
Code(c) == IF c = "-" THEN 45 ELSE IF IsDigit(c) THEN 48 + DigitVal(c) ELSE 127

RECURSIVE StrLess(_, _)
StrLess(a, b) ==
  IF Len(b) = 0 THEN FALSE
  ELSE IF Len(a) = 0 THEN TRUE
  ELSE IF Char(a, 1) = Char(b, 1) THEN StrLess(SubSeq(a, 2, Len(a)), SubSeq(b, 2, Len(b)))
  ELSE Code(Char(a, 1)) < Code(Char(b, 1))

\* ORDER BY on a TEXT column: NULL sorts as the largest value.
TextLess(x, y) ==
  IF x.t = "null" THEN FALSE
  ELSE IF y.t = "null" THEN TRUE
  ELSE StrLess(x.s, y.s)

row_to_invoice(row) ==
  [id |-> row.id, invoice_number |-> row.invoice_number, creation_date |-> row.creation_date,
   company_name |-> row.company_name, company_address |-> row.company_address,
   company_email |-> row.company_email, total_amount |-> row.total_amount]

\* The SELECT of list_invoices without its ORDER BY.
select_invoices_unordered(d, user) == Orderings({r \in d.invoices : r.user_id = user})

\* SELECT * FROM invoices WHERE user_id=%s ORDER BY creation_date DESC
select_invoices_by_date(d, user) ==
  {f \in Orderings({r \in d.invoices : r.user_id = user}) :
     \A i, j \in DOMAIN f : i < j => ~TextLess(f[i].creation_date, f[j].creation_date)}

\* SELECT * FROM invoices WHERE user_id=%s
select_invoices(d, user) == Orderings({r \in d.invoices : r.user_id = user})


\* The lookup without "AND user_id=%s".
select_invoice_any_user(d, user, number) == {r \in d.invoices : r.invoice_number = number}

\* SELECT * FROM invoices WHERE invoice_number=%s AND user_id=%s
select_invoice(d, user, number) ==
  {r \in d.invoices : r.user_id = user /\ r.invoice_number = number}

\* SELECT * FROM customers WHERE invoice_id=%s, each row made the dict the
\* handlers build (with the row id they look the items up by).
select_customers(d, inv_id) ==
  {[k \in DOMAIN f |-> [id |-> f[k].id, name |-> f[k].name, address |-> f[k].address,
                        email |-> f[k].email, items |-> <<>>]] :
     f \in Orderings({c \in d.customers : c.invoice_id = inv_id})}

\* SELECT description, quantity, unit_price FROM items WHERE customer_id=%s
select_items(d, cust_id) ==
  {[k \in DOMAIN f |-> [description |-> f[k].description, quantity |-> f[k].quantity,
                        unit_price |-> f[k].unit_price]] :
     f \in Orderings({x \in d.items : x.customer_id = cust_id})}

\* SELECT name FROM customers WHERE invoice_id=%s
select_customer_names(d, inv_id) ==
  {[k \in DOMAIN f |-> [name |-> f[k].name]] :
     f \in Orderings({c \in d.customers : c.invoice_id = inv_id})}

Entry(inv) == [inv |-> inv, customers |-> <<>>]
Entries(f) == [k \in DOMAIN f |-> Entry(row_to_invoice(f[k]))]

\* The invoices as returned: customers.append keeps name, address, email and
\* items of a customer row, not the id its items were looked up by.
jsonify(rows) ==
  [k \in DOMAIN rows |->
     [rows[k] EXCEPT !.customers =
        [c \in DOMAIN @ |-> [name |-> @[c].name, address |-> @[c].address,
                             email |-> @[c].email, items |-> @[c].items]]]]

(***************************************************************************)
(* generate_pdf: the document.  A page is the texts of its cells in the    *)
(* order they are written; a table row is its four cells.                  *)
(***************************************************************************)
\* str() of a column value inside an f-string.
PyStr(v) ==
  CASE v.t = "str" -> v.s
    [] v.t = "num" -> ToString(v.n)
    [] OTHER -> "None"

\* f"${x:.2f}" of a whole amount.
Money(x) == "$" \o ToString(x) \o ".00"

\* The description cell written whole.
table_description_whole(desc) == desc

\* Lines 661-663.
table_description(desc) == IF Len(desc) > 45 THEN SubSeq(desc, 1, 42) \o "..." ELSE desc

\* Lines 656-658: total = qty * unit_price.
line_total(item) == item.quantity * item.unit_price

\* Lines 653 and 659: subtotal += total over the items of one customer.
RECURSIVE subtotal(_)
subtotal(items) ==
  IF Len(items) = 0 THEN 0
  ELSE subtotal(SubSeq(items, 1, Len(items) - 1)) + line_total(items[Len(items)])

\* The grand total recomputed from the lines.
grand_total_of_lines(invoice) ==
  LET RECURSIVE Sum(_)
      Sum(k) == IF k = 0 THEN 0 ELSE Sum(k - 1) + subtotal(invoice.customers[k].items)
  IN Sum(Len(invoice.customers))

\* Line 691: invoice.get('total_amount', 0).
grand_total(invoice) == invoice.inv.total_amount

\* Lines 661-670: the four cells of one item.
item_row(item) ==
  [description |-> table_description(item.description.s), qty |-> ToString(item.quantity),
   unit_price |-> Money(item.unit_price), total |-> Money(line_total(item))]

\* Lines 629-682: the section of one customer; the table and its subtotal
\* are written only if the customer has items.
customer_section(cust) ==
  [lines |-> <<"Bill To: " \o PyStr(cust.name)>>
               \o (IF Truthy(cust.address) THEN <<cust.address.s>> ELSE <<>>)
               \o (IF Truthy(cust.email) THEN <<cust.email.s>> ELSE <<>>),
   table |-> [k \in DOMAIN cust.items |-> item_row(cust.items[k])],
   subtotal |-> IF Len(cust.items) > 0 THEN <<"Subtotal:", Money(subtotal(cust.items))>> ELSE <<>>]

\* len(desc) at line 662 raises TypeError on a description that is None
\* (item.get('description', '') finds the key, with the value None), and
\* pdf.cell at line 613 raises on a company_name that is None.
renders(invoice) ==
  /\ invoice.inv.company_name.t = "str"
  /\ \A c \in DOMAIN invoice.customers :
       \A k \in DOMAIN invoice.customers[c].items :
         invoice.customers[c].items[k].description.t = "str"

\* Lines 592-701: the document of one invoice, written at time now; the
\* library stamps the document with the time it is written.
render(invoice, now) ==
  [title |-> "INVOICE #" \o ToString(invoice.inv.invoice_number),
   head |-> <<"From:", "Date: " \o PyStr(invoice.inv.creation_date)>>
              \o <<invoice.inv.company_name.s>>
              \o (IF Truthy(invoice.inv.company_address)
                  THEN <<invoice.inv.company_address.s>> ELSE <<>>)
              \o (IF Truthy(invoice.inv.company_email)
                  THEN <<invoice.inv.company_email.s>> ELSE <<>>),
   customers |-> [c \in DOMAIN invoice.customers |-> customer_section(invoice.customers[c])],
   total |-> <<"TOTAL AMOUNT:", Money(grand_total(invoice))>>,
   footer |-> "Thank you for your business!",
   written |-> now]

\* What the handler that read rows answers: list_invoices the rows (line
\* 398), generate_pdf the document of its one invoice (lines 704-709).
returned(r, rows, now) ==
  IF r.op # "pdf" THEN [Response(200, "", "none") EXCEPT !.data = jsonify(rows)]
  ELSE IF renders(rows[1])
  THEN [Response(200, "", "none") EXCEPT !.data = jsonify(rows),
                                         !.pdf = <<render(jsonify(rows)[1], now)>>]
  ELSE Response(500, "Internal Server Error",
                IF rows[1].inv.company_name.t = "str" THEN "TypeError" ELSE "AttributeError")

\* The handler has the customers of entry i; it goes on to their items, to
\* the next invoice, or returns.
AfterCustomers(p, rows, customers_label, items_label) ==
  LET i == loc[p].i
  IN IF Len(rows[i].customers) > 0
     THEN /\ Goto(p, req[p], items_label, [loc[p] EXCEPT !.rows = rows, !.j = 1])
          /\ UNCHANGED <<db, hist, tx, resp>>
     ELSE IF i < Len(rows)
     THEN /\ Goto(p, req[p], customers_label, [loc[p] EXCEPT !.rows = rows, !.i = i + 1])
          /\ UNCHANGED <<db, hist, tx, resp>>
     ELSE \E now \in Times : Finish(p, req[p], db, NoWrites, returned(req[p], rows, now))

AfterItems(p, rows, customers_label, items_label) ==
  LET i == loc[p].i
      j == loc[p].j
  IN IF j < Len(rows[i].customers)
     THEN /\ Goto(p, req[p], items_label, [loc[p] EXCEPT !.rows = rows, !.j = j + 1])
          /\ UNCHANGED <<db, hist, tx, resp>>
     ELSE IF i < Len(rows)
     THEN /\ Goto(p, req[p], customers_label, [loc[p] EXCEPT !.rows = rows, !.i = i + 1])
          /\ UNCHANGED <<db, hist, tx, resp>>
     ELSE \E now \in Times : Finish(p, req[p], db, NoWrites, returned(req[p], rows, now))

\* Lines 376-379.
list_invoices_begin(p) ==
  \E u \in Users :
    /\ Start(p)
    /\ \E f \in select_invoices_by_date(db, u) :
         IF Len(f) = 0
         THEN Finish(p, Request("list", u, 0, "empty", "month"), db, NoWrites, Response(200, "", "none"))
         ELSE /\ Goto(p, Request("list", u, 0, "empty", "month"), "list_customers",
                      [NoLoc EXCEPT !.rows = Entries(f), !.i = 1])
              /\ UNCHANGED <<db, hist, tx, resp>>
    /\ UNCHANGED seq

\* Line 383.
list_invoices_customers(p) ==
  /\ pc[p] = "list_customers"
  /\ \E cs \in select_customers(db, loc[p].rows[loc[p].i].inv.id) :
       AfterCustomers(p, [loc[p].rows EXCEPT ![loc[p].i].customers = cs],
                      "list_customers", "list_items")
  /\ UNCHANGED <<seq, nreq>>

\* Lines 387-388.
list_invoices_items(p) ==
  /\ pc[p] = "list_items"
  /\ LET i == loc[p].i
         j == loc[p].j
     IN \E its \in select_items(db, loc[p].rows[i].customers[j].id) :
          AfterItems(p, [loc[p].rows EXCEPT ![i].customers[j].items = its],
                     "list_customers", "list_items")
  /\ UNCHANGED <<seq, nreq>>

\* Lines 566-573.
generate_pdf_begin(p) ==
  \E u \in Users, n \in UrlNumbers :
    /\ Start(p)
    /\ IF select_invoice(db, u, n) = {}
       THEN Finish(p, Request("pdf", u, n, "empty", "month"), db, NoWrites,
                   Response(404, "Invoice not found", "none"))
       ELSE \E r \in select_invoice(db, u, n) :
              /\ Goto(p, Request("pdf", u, n, "empty", "month"), "pdf_customers",
                      [NoLoc EXCEPT !.rows = <<Entry(row_to_invoice(r))>>, !.i = 1,
                                    !.inv_id = r.id])
              /\ UNCHANGED <<db, hist, tx, resp>>
    /\ UNCHANGED seq

\* Line 576.
generate_pdf_customers(p) ==
  /\ pc[p] = "pdf_customers"
  /\ \E cs \in select_customers(db, loc[p].rows[1].inv.id) :
       AfterCustomers(p, [loc[p].rows EXCEPT ![1].customers = cs],
                      "pdf_customers", "pdf_items")
  /\ UNCHANGED <<seq, nreq>>

\* Lines 580-581.
generate_pdf_items(p) ==
  /\ pc[p] = "pdf_items"
  /\ LET j == loc[p].j
     IN \E its \in select_items(db, loc[p].rows[1].customers[j].id) :
          AfterItems(p, [loc[p].rows EXCEPT ![1].customers[j].items = its],
                     "pdf_customers", "pdf_items")
  /\ UNCHANGED <<seq, nreq>>

(***************************************************************************)
(* reset_invoice_number                                                    *)
(***************************************************************************)
\* Lines 555-557: SELECT MAX(invoice_number) ... WHERE user_id; "mx if
\* result and mx else 999".
last_invoice_number(d, user) ==
  LET mine == {r.invoice_number : r \in {r \in d.invoices : r.user_id = user}}
  IN IF mine = {} \/ Max(mine) = 0 THEN 999 ELSE Max(mine)

\* Lines 549-558: the SELECT and the answer; no other statement, no commit.
reset_invoice_number(p) ==
  \E u \in Users :
    /\ Start(p)
    /\ Finish(p, Request("reset", u, 0, "empty", "month"), db, NoWrites,
              [Response(200, "", "none") EXCEPT !.invoice_number = Num(last_invoice_number(db, u))])
    /\ UNCHANGED seq

(***************************************************************************)
(* categorize                                                              *)
(***************************************************************************)
LeapYear(y) == (y % 4 = 0 /\ y % 100 # 0) \/ y % 400 = 0

DaysInMonth(y, m) ==
  IF m = 2 THEN (IF LeapYear(y) THEN 29 ELSE 28)
  ELSE IF m \in {4, 6, 9, 11} THEN 30 ELSE 31

\* datetime.strptime(s, "%Y-%m-%d") returns, for the ten-character strings
\* the model sends.
ParsesAsDate(s) ==
  /\ Len(s) = 10
  /\ AllDigits(SubSeq(s, 1, 4)) /\ Char(s, 5) = "-"
  /\ AllDigits(SubSeq(s, 6, 7)) /\ Char(s, 8) = "-"
  /\ AllDigits(SubSeq(s, 9, 10))
  /\ DecimalValue(SubSeq(s, 1, 4)) >= 1
  /\ DecimalValue(SubSeq(s, 6, 7)) \in 1..12
  /\ DecimalValue(SubSeq(s, 9, 10)) \in
       1..DaysInMonth(DecimalValue(SubSeq(s, 1, 4)), DecimalValue(SubSeq(s, 6, 7)))

\* str(d.year): the year without leading zeros.
RECURSIVE YearText(_)
YearText(y) == IF Len(y) > 1 /\ Char(y, 1) = "0" THEN YearText(SubSeq(y, 2, Len(y))) ELSE y

\* The bucket chosen as if period were always "month".
bucket_key_month(creation_date, period) ==
  IF creation_date.t # "str" \/ ~ParsesAsDate(creation_date.s) THEN creation_date
  ELSE Str(SubSeq(creation_date.s, 1, 7))

\* Lines 534-545: the bucket of an invoice; the stored value itself when it
\* is no date.
bucket_key(creation_date, period) ==
  IF creation_date.t # "str" \/ ~ParsesAsDate(creation_date.s) THEN creation_date
  ELSE IF period = "year" THEN Str(YearText(SubSeq(creation_date.s, 1, 4)))
  ELSE IF period = "day" THEN creation_date
  ELSE Str(SubSeq(creation_date.s, 1, 7))

\* categorized.setdefault(key, []).append(inv), over rows 1..k.
RECURSIVE Categorized(_, _, _)
Categorized(rows, k, period) ==
  IF k = 0 THEN <<>>
  ELSE LET sofar == Categorized(rows, k - 1, period)
           key == bucket_key(rows[k].inv.creation_date, period)
           at == {b \in DOMAIN sofar : sofar[b].key = key}
       IN IF at = {} THEN Append(sofar, [key |-> key, invoices |-> <<rows[k]>>])
          ELSE [sofar EXCEPT ![CHOOSE b \in at : TRUE].invoices = Append(@, rows[k])]

\* Lines 520-524.
categorize_begin(p) ==
  \E u \in Users, period \in Periods :
    /\ Start(p)
    /\ \E f \in select_invoices(db, u) :
         IF Len(f) = 0
         THEN Finish(p, Request("categorize", u, 0, "empty", period), db, NoWrites,
                     Response(200, "", "none"))
         ELSE /\ Goto(p, Request("categorize", u, 0, "empty", period), "categorize_customers",
                      [NoLoc EXCEPT !.rows = Entries(f), !.i = 1])
              /\ UNCHANGED <<db, hist, tx, resp>>
    /\ UNCHANGED seq

\* Lines 527-547: one SELECT of customer names per invoice, then the buckets.
categorize_customers(p) ==
  /\ pc[p] = "categorize_customers"
  /\ LET i == loc[p].i
     IN \E cs \in select_customer_names(db, loc[p].rows[i].inv.id) :
          LET rows == [loc[p].rows EXCEPT ![i].customers = cs]
          IN IF i < Len(rows)
             THEN /\ Goto(p, req[p], "categorize_customers",
                          [loc[p] EXCEPT !.rows = rows, !.i = i + 1])
                  /\ UNCHANGED <<db, hist, tx, resp>>
             ELSE Finish(p, req[p], db, NoWrites,
                         [Response(200, "", "none") EXCEPT
                            !.data = Categorized(rows, Len(rows), req[p].period)])
  /\ UNCHANGED <<seq, nreq>>

(***************************************************************************)
(* The system.                                                             *)
(***************************************************************************)
FirstSeq == [inv |-> 1, cust |-> 1, item |-> 1]

\* The database the application starts on is empty (init_db has just made
\* the tables) or holds what an earlier run left: here, user A's invoice
\* 1000, made from FullBody.
SeedWrites ==
  LET ch == insert_children(1, FullBody.customers, [FirstSeq EXCEPT !.inv = 2])
  IN [w |-> [NoWrites EXCEPT !.insInv = {row_of_header(1, "A", 1000, FullBody, 150)},
                             !.insCust = ch.insCust, !.insItem = ch.insItem],
      seq |-> ch.seq]

Boot(n) ==
  /\ \/ db = EmptyDB /\ seq = FirstSeq
     \/ db = commit(EmptyDB, SeedWrites.w) /\ seq = SeedWrites.seq
  /\ hist = [aggs |-> Aggregates(db),
             origin |-> {[id |-> r.id, op |-> "create", body |-> "full"] : r \in db.invoices}]
  /\ pc = [p \in Procs |-> "idle"]
  /\ req = [p \in Procs |-> NoReq]
  /\ loc = [p \in Procs |-> NoLoc]
  /\ tx = [p \in Procs |-> NoTx]
  /\ resp = [p \in Procs |-> NoResp]
  /\ nreq = n

Init == Boot(MaxReq)

Next ==
  \E p \in Procs :
    \/ create_invoice_begin(p)
    \/ create_invoice_insert(p)
    \/ modify_invoice_begin(p)
    \/ modify_invoice_update(p)
    \/ modify_invoice_delete(p)
    \/ modify_invoice_insert(p)
    \/ delete_invoice_begin(p)
    \/ delete_invoice_children(p)
    \/ delete_invoice_commit(p)
    \/ deadlock_abort(p)
    \/ list_invoices_begin(p)
    \/ list_invoices_customers(p)
    \/ list_invoices_items(p)
    \/ generate_pdf_begin(p)
    \/ generate_pdf_customers(p)
    \/ generate_pdf_items(p)
    \/ categorize_begin(p)
    \/ categorize_customers(p)

Spec == Init /\ [][Next]_vars

\* The categorize requests alone, on a database in which user A holds the
\* invoices made from FullBody, ZeroBody and BareBody (dated 2024-01-05,
\* 2024-01-20 and 2024-02-01) and user B one made from UndatedBody.
CategorizeSeed ==
  LET ch == insert_children(1, FullBody.customers, [FirstSeq EXCEPT !.inv = 5])
  IN [w |-> [NoWrites EXCEPT
               !.insInv = {row_of_header(1, "A", 1000, FullBody, 150),
                           row_of_header(2, "A", 0, ZeroBody, 20),
                           row_of_header(3, "A", 1001, BareBody, 16777217),
                           row_of_header(4, "B", 1000, UndatedBody, 5)},
               !.insCust = ch.insCust, !.insItem = ch.insItem],
      seq |-> ch.seq]

InitCategorize ==
  /\ db = commit(EmptyDB, CategorizeSeed.w) /\ seq = CategorizeSeed.seq
  /\ hist = [aggs |-> Aggregates(db), origin |-> {}]
  /\ pc = [p \in Procs |-> "idle"]
  /\ req = [p \in Procs |-> NoReq]
  /\ loc = [p \in Procs |-> NoLoc]
  /\ tx = [p \in Procs |-> NoTx]
  /\ resp = [p \in Procs |-> NoResp]
  /\ nreq = MaxCategorizeReq

NextCategorize ==
  \E p \in Procs :
    \/ categorize_begin(p)
    \/ categorize_customers(p)

SpecCategorize == InitCategorize /\ [][NextCategorize]_vars

\* The generate_pdf requests alone, on a database in which user A's invoice
\* 1000 was made from LongBody and user B's invoice 1000 from FullBody.
PdfSeed ==
  LET long == insert_children(1, LongBody.customers, [FirstSeq EXCEPT !.inv = 3])
      full == insert_children(2, FullBody.customers, long.seq)
  IN [w |-> [NoWrites EXCEPT
               !.insInv = {row_of_header(1, "A", 1000, LongBody, 80),
                           row_of_header(2, "B", 1000, FullBody, 150)},
               !.insCust = long.insCust \cup full.insCust,
               !.insItem = long.insItem \cup full.insItem],
      seq |-> full.seq]

InitPdf ==
  /\ db = commit(EmptyDB, PdfSeed.w) /\ seq = PdfSeed.seq
  /\ hist = [aggs |-> Aggregates(db), origin |-> {}]
  /\ pc = [p \in Procs |-> "idle"]
  /\ req = [p \in Procs |-> NoReq]
  /\ loc = [p \in Procs |-> NoLoc]
  /\ tx = [p \in Procs |-> NoTx]
  /\ resp = [p \in Procs |-> NoResp]
  /\ nreq = MaxPdfReq

NextPdf ==
  \E p \in Procs :
    \/ generate_pdf_begin(p)
    \/ generate_pdf_customers(p)
    \/ generate_pdf_items(p)

SpecPdf == InitPdf /\ [][NextPdf]_vars

\* The handlers that only read, alone (list_invoices, generate_pdf,
\* categorize and reset_invoice_number),
\* on a database in which user A holds invoice 1000, made from FullBody,
\* and user B invoice 0, made from ZeroBody.
ReadOnlySeed ==
  LET ch == insert_children(1, FullBody.customers, [FirstSeq EXCEPT !.inv = 3])
  IN [w |-> [NoWrites EXCEPT
               !.insInv = {row_of_header(1, "A", 1000, FullBody, 150),
                           row_of_header(2, "B", 0, ZeroBody, 20)},
               !.insCust = ch.insCust, !.insItem = ch.insItem],
      seq |-> ch.seq]

InitReadOnly ==
  /\ db = commit(EmptyDB, ReadOnlySeed.w) /\ seq = ReadOnlySeed.seq
  /\ hist = [aggs |-> Aggregates(db), origin |-> {}]
  /\ pc = [p \in Procs |-> "idle"]
  /\ req = [p \in Procs |-> NoReq]
  /\ loc = [p \in Procs |-> NoLoc]
  /\ tx = [p \in Procs |-> NoTx]
  /\ resp = [p \in Procs |-> NoResp]
  /\ nreq = MaxReadReq

NextReadOnly ==
  \E p \in Procs :
    \/ list_invoices_begin(p)
    \/ list_invoices_customers(p)
    \/ list_invoices_items(p)
    \/ generate_pdf_begin(p)
    \/ generate_pdf_customers(p)
    \/ generate_pdf_items(p)
    \/ categorize_begin(p)
    \/ categorize_customers(p)
    \/ reset_invoice_number(p)

SpecReadOnly == InitReadOnly /\ [][NextReadOnly]_vars

\* The generate_pdf requests alone, on a database in which user A's invoice
\* 1000 was made from PlainItemBody and user B's invoice 1000 from
\* BriefBody.
ExportSeed ==
  LET ch == insert_children(1, PlainItemBody.customers, [FirstSeq EXCEPT !.inv = 3])
  IN [w |-> [NoWrites EXCEPT
               !.insInv = {row_of_header(1, "A", 1000, PlainItemBody, 12),
                           row_of_header(2, "B", 1000, BriefBody, 0)},
               !.insCust = ch.insCust, !.insItem = ch.insItem],
      seq |-> ch.seq]

InitExport ==
  /\ db = commit(EmptyDB, ExportSeed.w) /\ seq = ExportSeed.seq
  /\ hist = [aggs |-> Aggregates(db), origin |-> {}]
  /\ pc = [p \in Procs |-> "idle"]
  /\ req = [p \in Procs |-> NoReq]
  /\ loc = [p \in Procs |-> NoLoc]
  /\ tx = [p \in Procs |-> NoTx]
  /\ resp = [p \in Procs |-> NoResp]
  /\ nreq = MaxExportReq

SpecExport == InitExport /\ [][NextPdf]_vars

\* Creates alone, with and without an invoice number in the body.
InitCreate == Boot(MaxCreateReq)

NextCreate ==
  \E p \in Procs :
    \/ create_invoice_with(p, NumberBodyNames)
    \/ create_invoice_insert(p)

SpecCreate == InitCreate /\ [][NextCreate]_vars

\* Creates and Deletes alone, three of them: the shortest runs in which a
\* number is deleted, given out again and met by a Delete that looked the
\* first invoice up.
InitDeleteCreate == Boot(MaxRaceReq)

NextDeleteCreate ==
  \E p \in Procs :
    \/ create_invoice_begin(p)
    \/ create_invoice_insert(p)
    \/ delete_invoice_begin(p)
    \/ delete_invoice_children(p)
    \/ delete_invoice_commit(p)

SpecDeleteCreate == InitDeleteCreate /\ [][NextDeleteCreate]_vars

(***************************************************************************)
(* Properties.                                                             *)
(***************************************************************************)
SameKey(r1, r2) == r1.user_id = r2.user_id /\ r1.invoice_number = r2.invoice_number
Keyed(d, user, number) == {r \in d.invoices : r.user_id = user /\ r.invoice_number = number}

\* The step in which p's create_invoice answers.
CreateReturns(p) == pc[p] = "create_insert" /\ pc'[p] = "idle"

\* C1: in every committed state no two invoices share (user_id,
\* invoice_number); two users may hold the same invoice_number.
C1_UniquePerUser ==
  \A r1, r2 \in db.invoices : SameKey(r1, r2) => r1 = r2

\* Two users hold the same invoice number.
C1_SameNumberTwoUsers ==
  \E r1, r2 \in db.invoices :
    r1.user_id # r2.user_id /\ r1.invoice_number = r2.invoice_number

\* The error classes by the status the caller sees: Conflict is 400 or 409,
\* NotFound 404, ValidationError 400.
Conflict(a) == a.status \in {400, 409}
NotFound(a) == a.status = 404
ValidationError(a) == a.status = 400

\* C2: a create_invoice that reaches its INSERT when the user already holds
\* the number it chose (another Create took it after this one read the
\* maximum) fails with Conflict and writes nothing; one that succeeds is
\* then the only invoice of the user with its number.  So two Creates
\* never both succeed with one number.
C2_ConcurrentCreatesDistinct ==
  [][\A p \in Procs :
       CreateReturns(p) =>
         LET u == req[p].user
             n == loc[p].invoice_number.n
         IN /\ Cardinality(Keyed(db', u, n)) <= 1
            /\ IF Keyed(db, u, n) # {}
               THEN Conflict(resp'[p]) /\ db' = db
               ELSE resp'[p].status = 201 =>
                      /\ resp'[p].invoice_number = Num(n)
                      /\ Ids(Keyed(db', u, n)) = {resp'[p].inv_id}]_vars

CountItems(custs) == ItemsBefore(custs, Len(custs) + 1)

\* C3: a create_invoice that fails leaves the committed rows as they were,
\* also when the header and some customers and items were already
\* inserted; one that succeeds has persisted its header, every customer
\* and every item.
C3_CreateAllOrNothing ==
  [][\A p \in Procs :
       CreateReturns(p) =>
         LET b == Body(req[p].body)
             id == resp'[p].inv_id
         IN IF resp'[p].status = 201
            THEN /\ id \notin Ids(db.invoices) /\ id \in Ids(db'.invoices)
                 /\ Cardinality(ChildCustomers(db', id)) = Len(b.customers)
                 /\ Cardinality(ChildItems(db', id)) = CountItems(b.customers)
                 /\ Cardinality(db'.invoices) = Cardinality(db.invoices) + 1
            ELSE db' = db]_vars

\* A Create failed on an item after its header was inserted.
C3_FailedAfterHeaderInsert ==
  \E p \in Procs :
    /\ resp[p].req.op = "create" /\ resp[p].raised = "ValueError"
    /\ resp[p].inv_id # 0
    /\ FirstBadCustomer(Body(resp[p].req.body).customers) # 0

ReplaceLabels == {"replace_update", "replace_delete", "replace_insert"}

\* C4: no step of a modify_invoice changes the committed rows except the
\* one in which it commits and answers 200: while it runs, and when it
\* fails having updated the header, deleted the old customers and items
\* and inserted some new rows, every reader finds the rows as before.
C4_ReplaceAllOrNothing ==
  [][\A p \in Procs :
       (pc[p] \in ReplaceLabels /\ pc'[p] # pc[p]
          /\ ~(pc'[p] = "idle" /\ resp'[p].status = 200))
         => db' = db]_vars

\* A Replace failed on an item of its new set, after the header update, the
\* deletion of the old children and the first INSERTs.
C4_FailedAfterWrites ==
  \E p \in Procs :
    /\ resp[p].req.op = "replace" /\ resp[p].raised = "ValueError"
    /\ FirstBadCustomer(Body(resp[p].req.body).customers) # 0
    /\ resp[p].inv_id \in Ids(db.invoices)

ReadLabels ==
  {"list_customers", "list_items", "pdf_customers", "pdf_items", "categorize_customers"}

Range(f) == {f[k] : k \in DOMAIN f}

\* The invoice entries a read has fetched so far, or has returned.
EntriesOf(p) ==
  IF pc[p] \in ReadLabels THEN Range(loc[p].rows)
  ELSE IF resp[p].req.op \in {"list", "pdf"} THEN Range(resp[p].data)
  ELSE IF resp[p].req.op = "categorize"
  THEN UNION {Range(resp[p].data[k].invoices) : k \in DOMAIN resp[p].data}
  ELSE {}

ReaderOf(p) == IF pc[p] \in ReadLabels THEN req[p] ELSE resp[p].req

\* Invoice id was, in every committed state that held it, an invoice of
\* user u.
OwnedBy(id, u) ==
  /\ \E a \in hist.aggs : a.inv.id = id
  /\ \A a \in hist.aggs : a.inv.id = id => a.inv.user_id = u

\* Customer c of an entry (for categorize: its name) was a customer of
\* invoice id, and its items were items of that customer.
CustomerOf(c, id, op) ==
  \E a \in hist.aggs :
    /\ a.inv.id = id
    /\ \E x \in a.customers :
         IF op = "categorize" THEN x.row.name = c.name
         ELSE /\ x.row.name = c.name /\ x.row.address = c.address /\ x.row.email = c.email
              /\ \A k \in DOMAIN c.items :
                   \E i \in x.items :
                     /\ i.description = c.items[k].description
                     /\ i.quantity = c.items[k].quantity
                     /\ i.unit_price = c.items[k].unit_price

\* C5: whatever list_invoices, generate_pdf and categorize fetch for a user
\* is an invoice of that user, with customers and items of that invoice.
C5_ReadsOwnInvoicesOnly ==
  \A p \in Procs :
    \A e \in EntriesOf(p) :
      /\ OwnedBy(e.inv.id, ReaderOf(p).user)
      /\ \A k \in DOMAIN e.customers : CustomerOf(e.customers[k], e.inv.id, ReaderOf(p).op)

\* A read returned invoices to a user while another user held an invoice
\* with the number of one of them.
C5_ReadWhileNumberShared ==
  \E p \in Procs :
    /\ resp[p].req.op \in {"list", "pdf", "categorize"} /\ resp[p].status = 200
    /\ \E e \in EntriesOf(p) :
         \E r \in db.invoices :
           r.invoice_number = e.inv.invoice_number /\ r.user_id # resp[p].req.user

\* The step in which a request of p arrives, and the request.
StartedBy(p) ==
  /\ pc[p] = "idle" /\ nreq' = nreq - 1
  /\ \/ pc'[p] # "idle"
     \/ pc' = pc /\ resp'[p].req.op # "none"
Started(p) == IF pc'[p] = "idle" THEN resp'[p].req ELSE req'[p]

NotOwned(p) ==
  /\ StartedBy(p)
  /\ Started(p).op \in {"replace", "delete", "pdf"}
  /\ Keyed(db, Started(p).user, Started(p).num) = {}

\* C6 as claimed: modify_invoice, delete_invoice and generate_pdf called
\* for a number the user holds no invoice under (nobody does, or only
\* another user) answer NotFound and leave every row as it was.
C6_NotOwnedIsNotFound ==
  [][\A p \in Procs :
       NotOwned(p) => pc'[p] = "idle" /\ NotFound(resp'[p]) /\ db' = db]_vars

\* C6, amended: modify_invoice with a JSON body, delete_invoice and
\* generate_pdf called for a number the user holds no invoice under answer
\* NotFound; modify_invoice without a body answers ValidationError, whether
\* the user holds the invoice or not; in each case every row is left as it
\* was.
C6_NotOwnedIsNotFoundOrNoBody ==
  [][\A p \in Procs :
       /\ NotOwned(p) =>
            /\ pc'[p] = "idle" /\ db' = db
            /\ IF Started(p).op = "replace" /\ Body(Started(p).body).empty
               THEN ValidationError(resp'[p])
               ELSE NotFound(resp'[p])
       /\ (StartedBy(p) /\ Started(p).op = "replace" /\ Body(Started(p).body).empty) =>
            pc'[p] = "idle" /\ db' = db /\ ValidationError(resp'[p])]_vars

\* User B's Replace, with a body, of a number only user A holds was
\* answered NotFound.
C6_OtherUsersNumberNotFound ==
  \E p \in Procs :
    /\ resp[p].req.op = "replace" /\ resp[p].req.user = "B"
    /\ ~Body(resp[p].req.body).empty
    /\ NotFound(resp[p])
    /\ Keyed(db, "A", resp[p].req.num) # {} /\ Keyed(db, "B", resp[p].req.num) = {}

\* The items a read returned for a customer are the item rows its.
SameItems(items, its) ==
  /\ Len(items) = Cardinality(its)
  /\ \A i \in its :
       \E k \in DOMAIN items :
         /\ items[k].description = i.description
         /\ items[k].quantity = i.quantity
         /\ items[k].unit_price = i.unit_price

\* Entry e of a read is the committed aggregate a: its header, its
\* customers and their items.
EntryEquals(e, a) ==
  /\ e.inv = row_to_invoice(a.inv)
  /\ Len(e.customers) = Cardinality(a.customers)
  /\ \A c \in a.customers :
       \E k \in DOMAIN e.customers :
         /\ e.customers[k].name = c.row.name
         /\ e.customers[k].address = c.row.address
         /\ e.customers[k].email = c.row.email
         /\ SameItems(e.customers[k].items, c.items)

\* C7: every invoice that list_invoices or generate_pdf returns is, header,
\* customers and items together, one committed state of that invoice.
C7_ReadsOneCommittedState ==
  \A p \in Procs :
    (resp[p].req.op \in {"list", "pdf"} /\ resp[p].status = 200) =>
      \A e \in Range(resp[p].data) : \E a \in hist.aggs : EntryEquals(e, a)

\* The step in which p's delete_invoice answers.
DeleteReturns(p) == pc[p] = "delete_invoice" /\ pc'[p] = "idle"

OtherThan(d, user, number) ==
  {a \in Aggregates(d) : ~(a.inv.user_id = user /\ a.inv.invoice_number = number)}

\* C8: when delete_invoice answers 200 for (user, n), the invoice it looked
\* up is gone with its customers and their items, the user holds no
\* invoice under n (so FetchOne answers NotFound), and every other invoice
\* has its header, customers and items as before.
C8_DeleteCascades ==
  [][\A p \in Procs :
       (DeleteReturns(p) /\ resp'[p].status = 200) =>
         LET id == loc[p].inv_id
             u == req[p].user
             n == req[p].num
         IN /\ id \notin Ids(db'.invoices)
            /\ ChildCustomers(db', id) = {}
            /\ ChildItems(db, id) \cap db'.items = {}
            /\ Keyed(db', u, n) = {}
            /\ OtherThan(db', u, n) = OtherThan(db, u, n)]_vars

\* The value of a JSON number or string as the caller supplied it.
Supplied(v) == IF v.t = "num" THEN v.n ELSE Get(v)

\* Customer rows cs with their items in d are the supplied customers custs.
SameCustomers(d, cs, custs) ==
  /\ Cardinality(cs) = Len(custs)
  /\ \A k \in DOMAIN custs :
       \E c \in cs :
         /\ c.name = Get(custs[k].name)
         /\ c.address = Get(custs[k].address)
         /\ c.email = Get(custs[k].email)
         /\ LET its == {i \in d.items : i.customer_id = c.id}
            IN /\ Cardinality(its) = Len(custs[k].items)
               /\ \A j \in DOMAIN custs[k].items :
                    \E i \in its :
                      /\ i.description = Get(custs[k].items[j].description)
                      /\ i.quantity = Supplied(custs[k].items[j].quantity)
                      /\ i.unit_price = Supplied(custs[k].items[j].unit_price)

\* The step in which p's modify_invoice answers.
ReplaceReturns(p) == pc[p] = "replace_insert" /\ pc'[p] = "idle"

\* C9: when modify_invoice answers 200 for (user, n), the invoice has the
\* supplied header fields, its customers and items are the supplied ones
\* and none of the earlier ones, its number, id and owner are as before,
\* and every other invoice has its header, customers and items as before.
C9_ReplaceReplacesExactly ==
  [][\A p \in Procs :
       (ReplaceReturns(p) /\ resp'[p].status = 200) =>
         LET id == loc[p].inv_id
             u == req[p].user
             n == req[p].num
             b == Body(req[p].body)
         IN /\ \E r \in db'.invoices :
                 /\ r.id = id /\ r.user_id = u /\ r.invoice_number = n
                 /\ r.creation_date = Get(b.creation_date)
                 /\ r.company_name = Get(b.company_name)
                 /\ r.company_address = Get(b.company_address)
                 /\ r.company_email = Get(b.company_email)
                 /\ r.total_amount = Supplied(b.total_amount)
            /\ SameCustomers(db', ChildCustomers(db', id), b.customers)
            /\ ChildCustomers(db', id) \cap ChildCustomers(db, id) = {}
            /\ ChildItems(db', id) \cap ChildItems(db, id) = {}
            /\ OtherThan(db', u, n) = OtherThan(db, u, n)]_vars

\* Entry e of a read is the supplied invoice b: the header fields, the
\* customers in their order, each with its items.
EntryEqualsInput(e, b) ==
  /\ e.inv.creation_date = Get(b.creation_date)
  /\ e.inv.company_name = Get(b.company_name)
  /\ e.inv.company_address = Get(b.company_address)
  /\ e.inv.company_email = Get(b.company_email)
  /\ e.inv.total_amount = Supplied(b.total_amount)
  /\ Len(e.customers) = Len(b.customers)
  /\ \A k \in DOMAIN e.customers :
       /\ k \in DOMAIN b.customers
       /\ e.customers[k].name = Get(b.customers[k].name)
       /\ e.customers[k].address = Get(b.customers[k].address)
       /\ e.customers[k].email = Get(b.customers[k].email)
       /\ Len(e.customers[k].items) = Len(b.customers[k].items)
       /\ \A j \in DOMAIN b.customers[k].items :
            \E i \in DOMAIN e.customers[k].items :
              /\ e.customers[k].items[i].description = Get(b.customers[k].items[j].description)
              /\ e.customers[k].items[i].quantity = Supplied(b.customers[k].items[j].quantity)
              /\ e.customers[k].items[i].unit_price = Supplied(b.customers[k].items[j].unit_price)

\* C10: what generate_pdf or list_invoices fetches for an invoice that
\* create_invoice stored, and nothing has replaced since, equals the body
\* that was created: header fields, customers in order, items of each.
C10_CreateFetchRoundTrip ==
  \A p \in Procs :
    (resp[p].req.op \in {"pdf", "list"} /\ resp[p].status = 200) =>
      \A e \in Range(resp[p].data) :
        \A o \in hist.origin :
          (o.id = e.inv.id /\ o.op = "create") => EntryEqualsInput(e, Body(o.body))

\* The invoice numbers user holds in d.
NumbersOf(d, user) == {r.invoice_number : r \in {r \in d.invoices : r.user_id = user}}

\* C11: a create_invoice whose body has no invoice_number takes 1000 when
\* the user has no invoice and the user's largest invoice number plus one
\* otherwise, whatever the other users hold.
C11_NextNumber ==
  [][\A p \in Procs :
       (StartedBy(p) /\ Started(p).op = "create" /\ ~Body(Started(p).body).empty
          /\ Body(Started(p).body).invoice_number = Absent) =>
         /\ pc'[p] = "create_insert"
         /\ loc'[p].invoice_number =
              Num(IF NumbersOf(db, Started(p).user) = {} THEN 1000
                  ELSE Max(NumbersOf(db, Started(p).user)) + 1)]_vars

\* C12: a create_invoice whose body names an invoice number the user
\* already holds when the INSERT runs fails with Conflict, and the
\* committed rows (the invoice that holds the number included) stay as
\* they were.
C12_ExplicitDuplicateConflict ==
  [][\A p \in Procs :
       (CreateReturns(p) /\ Truthy(Get(Body(req[p].body).invoice_number))
          /\ SqlInteger(loc[p].invoice_number).ok
          /\ Keyed(db, req[p].user, SqlInteger(loc[p].invoice_number).val) # {}) =>
         Conflict(resp'[p]) /\ db' = db]_vars

\* A number parsed by f from JSON value v, absent read as d, or d when f
\* rejects it.
ParsedOr(v, d) ==
  LET x == PyFloat(GetDefault(v, Num(d))) IN IF x.ok THEN x.val ELSE d

\* Invoice id is stored in d as body b with the defaults in place of what
\* does not parse: total_amount and unit_price 0, quantity 1.
StoredWithDefaults(d, id, b) ==
  /\ \E r \in d.invoices : r.id = id /\ r.total_amount = ToReal(ParsedOr(b.total_amount, 0))
  /\ Cardinality(ChildCustomers(d, id)) = Len(b.customers)
  /\ \A k \in DOMAIN b.customers :
       \E c \in ChildCustomers(d, id) :
         /\ c.name = Get(b.customers[k].name)
         /\ LET its == {i \in d.items : i.customer_id = c.id}
            IN /\ Cardinality(its) = Len(b.customers[k].items)
               /\ \A j \in DOMAIN b.customers[k].items :
                    \E i \in its :
                      /\ i.description = Get(b.customers[k].items[j].description)
                      /\ i.quantity = ParsedOr(b.customers[k].items[j].quantity, 1)
                      /\ i.unit_price = ToReal(ParsedOr(b.customers[k].items[j].unit_price, 0))

\* C13: a create_invoice that meets no duplicate number, and a
\* modify_invoice of an existing invoice with no other request in flight,
\* are not rejected whatever their total_amount, unit_price and quantity
\* values are: what does not parse is stored as 0 (amounts) or 1 (quantity).
C13_ParseOrDefault ==
  [][\A p \in Procs :
       /\ (CreateReturns(p) /\ SqlInteger(loc[p].invoice_number).ok
             /\ Keyed(db, req[p].user, SqlInteger(loc[p].invoice_number).val) = {}) =>
            /\ resp'[p].status = 201
            /\ StoredWithDefaults(db', resp'[p].inv_id, Body(req[p].body))
       /\ (pc[p] \in ReplaceLabels /\ pc'[p] = "idle"
             /\ loc[p].inv_id \in Ids(db.invoices)
             /\ \A q \in Others(p) : pc[q] = "idle") =>
            /\ resp'[p].status = 200
            /\ StoredWithDefaults(db', loc[p].inv_id, Body(req[p].body))]_vars

\* The key the claim gives an invoice dated date: the first 10, 7 or 4
\* characters of a date, the stored value of anything else.
ExpectedKey(date, period) ==
  IF date.t = "str" /\ ParsesAsDate(date.s)
  THEN Str(SubSeq(date.s, 1, CASE period = "day" -> 10
                               [] period = "year" -> 4
                               [] OTHER -> 7))
  ELSE date

\* The places <<bucket, position>> of data at which invoice inv stands.
PlacesOf(data, inv) ==
  {bi \in UNION {{<<b, i>> : i \in DOMAIN data[b].invoices} : b \in DOMAIN data} :
     data[bi[1]].invoices[bi[2]].inv = inv}

\* C14: categorize reads the invoices of the user, each once and no other
\* (none: it answers with no bucket); in its answer every invoice read
\* stands at one place, in the bucket whose key is that of its
\* creation_date for the period, the buckets have distinct keys, and
\* nothing else is in any bucket.
C14_Categorize ==
  [][\A p \in Procs :
       /\ (StartedBy(p) /\ Started(p).op = "categorize") =>
            LET mine == {r \in db.invoices : r.user_id = Started(p).user}
            IN IF mine = {}
               THEN pc'[p] = "idle" /\ resp'[p].status = 200 /\ resp'[p].data = <<>>
               ELSE /\ pc'[p] = "categorize_customers"
                    /\ Len(loc'[p].rows) = Cardinality(mine)
                    /\ {loc'[p].rows[k].inv : k \in DOMAIN loc'[p].rows}
                         = {row_to_invoice(r) : r \in mine}
       /\ (pc[p] = "categorize_customers" /\ pc'[p] = "idle") =>
            LET rows == loc[p].rows
                data == resp'[p].data
            IN /\ resp'[p].status = 200
               /\ \A k \in DOMAIN rows :
                    /\ Cardinality(PlacesOf(data, rows[k].inv)) = 1
                    /\ \A bi \in PlacesOf(data, rows[k].inv) :
                         data[bi[1]].key
                           = ExpectedKey(rows[k].inv.creation_date, req[p].period)
               /\ \A b \in DOMAIN data :
                    /\ Len(data[b].invoices) > 0
                    /\ \A i \in DOMAIN data[b].invoices :
                         \E k \in DOMAIN rows : rows[k].inv = data[b].invoices[i].inv
                    /\ \A c \in DOMAIN data : data[c].key = data[b].key => c = b]_vars

\* categorize by month answered user A, who holds invoices dated
\* 2024-01-05, 2024-01-20 and 2024-02-01, with the bucket 2024-01 of two
\* invoices and the bucket 2024-02 of one.
C14_TwoInJanuaryOneInFebruary ==
  \E p \in Procs :
    /\ resp[p].req.op = "categorize" /\ resp[p].req.period = "month"
    /\ resp[p].req.user = "A" /\ resp[p].status = 200
    /\ {r.creation_date : r \in {r \in db.invoices : r.user_id = "A"}}
         = {Str("2024-01-05"), Str("2024-01-20"), Str("2024-02-01")}
    /\ {<<resp[p].data[b].key, Len(resp[p].data[b].invoices)>> : b \in DOMAIN resp[p].data}
         = {<<Str("2024-01"), 2>>, <<Str("2024-02"), 1>>}

\* The headers of a sequence of entries.
Headers(rows) == [k \in DOMAIN rows |-> rows[k].inv]

\* C15: list_invoices reads the invoices the user holds, each once and no
\* other, no creation_date followed by a later one (none: it answers with
\* the empty sequence), and answers 200 with those invoices in that order.
C15_ListOwnedByDateDescending ==
  [][\A p \in Procs :
       /\ (StartedBy(p) /\ Started(p).op = "list") =>
            LET mine == {r \in db.invoices : r.user_id = Started(p).user}
                rows == IF pc'[p] = "idle" THEN resp'[p].data ELSE loc'[p].rows
            IN /\ mine = {} => pc'[p] = "idle" /\ resp'[p].status = 200 /\ resp'[p].data = <<>>
               /\ Len(rows) = Cardinality(mine)
               /\ {rows[k].inv : k \in DOMAIN rows} = {row_to_invoice(r) : r \in mine}
               /\ \A i, j \in DOMAIN rows :
                    i < j => ~StrLess(rows[i].inv.creation_date.s, rows[j].inv.creation_date.s)
       /\ (pc[p] \in {"list_customers", "list_items"} /\ pc'[p] = "idle") =>
            resp'[p].status = 200 /\ Headers(resp'[p].data) = Headers(loc[p].rows)]_vars

\* list_invoices answered a user who holds invoices of different dates.
C15_ListedTwoDates ==
  \E p \in Procs :
    /\ resp[p].req.op = "list" /\ resp[p].status = 200
    /\ Len(resp[p].data) >= 2
    /\ resp[p].data[1].inv.creation_date # resp[p].data[2].inv.creation_date
    /\ {resp[p].data[k].inv.id : k \in DOMAIN resp[p].data}
         = Ids({r \in db.invoices : r.user_id = resp[p].req.user})

\* C16: a slot that serves a request has the connection of that request
\* open, and a slot between requests has no connection and no open
\* transaction (no row lock, no pending delete), however its last request
\* ended: by a return, by an early error return, or by an exception.
C16_ConnectionReleased ==
  \A p \in Procs :
    IF pc[p] = "idle"
    THEN loc[p].conn = "none" /\ tx[p] = NoTx
    ELSE loc[p].conn = "open"

\* A modify_invoice ended by an exception nothing caught, after its
\* transaction had locked the invoice row, and its slot is idle.
C16_EndedByException ==
  \E p \in Procs :
    /\ pc[p] = "idle"
    /\ resp[p].req.op = "replace" /\ resp[p].status = 500
    /\ resp[p].raised = "ValueError"
    /\ FirstBadCustomer(Body(resp[p].req.body).customers) # 0

\* Slot p holds a document generate_pdf returned.
Rendered(p) == resp[p].req.op = "pdf" /\ resp[p].status = 200 /\ Len(resp[p].pdf) = 1

\* The stored invoice a returned document was asked for, and the stored
\* items of its customer named name.
StoredInvoice(p) ==
  CHOOSE r \in db.invoices :
    r.user_id = resp[p].req.user /\ r.invoice_number = resp[p].req.num

StoredItems(p, name) ==
  {x \in db.items :
     \E c \in db.customers :
       c.invoice_id = StoredInvoice(p).id /\ c.name = name /\ x.customer_id = c.id}

RECURSIVE LineSum(_)
LineSum(f) ==
  IF Len(f) = 0 THEN 0
  ELSE LineSum(SubSeq(f, 1, Len(f) - 1)) + f[Len(f)].quantity * f[Len(f)].unit_price

\* The amounts of section k of the document in slot p are those of the
\* stored items f, row by row.
SectionAmounts(p, k, f) ==
  LET sec == resp[p].pdf[1].customers[k]
  IN /\ Len(sec.table) = Len(f)
     /\ \A i \in DOMAIN f :
          /\ sec.table[i].qty = ToString(f[i].quantity)
          /\ sec.table[i].unit_price = Money(f[i].unit_price)
          /\ sec.table[i].total = Money(f[i].quantity * f[i].unit_price)
     /\ Len(f) > 0 => sec.subtotal = <<"Subtotal:", Money(LineSum(f))>>

\* C17: in every document generate_pdf returns, the grand total is the
\* stored total_amount of the invoice written with two decimals, whatever
\* the items are; every line total is quantity x unit_price of a stored item
\* of that customer; and every subtotal is the sum of that customer's line
\* totals.
C17_PdfTotals ==
  \A p \in Procs :
    Rendered(p) =>
      /\ resp[p].pdf[1].total = <<"TOTAL AMOUNT:", Money(StoredInvoice(p).total_amount)>>
      /\ \A k \in DOMAIN resp[p].pdf[1].customers :
           \E f \in Orderings(StoredItems(p, resp[p].data[1].customers[k].name)) :
             SectionAmounts(p, k, f)

\* A document was returned for an invoice whose stored total (80) is not the
\* sum of its line totals (60 + 5 + 12), with a subtotal over two lines.
C17_TotalDiffersFromLines ==
  \E p \in Procs :
    /\ Rendered(p)
    /\ resp[p].pdf[1].total = <<"TOTAL AMOUNT:", "$80.00">>
    /\ \E k \in DOMAIN resp[p].pdf[1].customers :
         /\ Len(resp[p].pdf[1].customers[k].table) = 2
         /\ resp[p].pdf[1].customers[k].subtotal = <<"Subtotal:", "$65.00">>
         /\ \E i \in 1..2 : resp[p].pdf[1].customers[k].table[i].total = "$60.00"

\* The description cells of section k of the document in slot p are those
\* of the stored items f, row by row: the first 42 characters and "..." of
\* a description longer than 45 characters, the description itself otherwise.
SectionDescriptions(p, k, f) ==
  LET sec == resp[p].pdf[1].customers[k]
  IN /\ Len(sec.table) = Len(f)
     /\ \A i \in DOMAIN f :
          LET d == f[i].description.s
          IN /\ Len(d) > 45 => sec.table[i].description = SubSeq(d, 1, 42) \o "..."
             /\ Len(d) <= 45 => sec.table[i].description = d
             /\ sec.table[i].qty = ToString(f[i].quantity)

\* The descriptions the seeded invoices were created with.
SuppliedDescriptions(b) ==
  UNION {{b.customers[c].items[k].description : k \in DOMAIN b.customers[c].items} :
           c \in DOMAIN b.customers}

\* C18: in every document generate_pdf returns, a description longer than 45
\* characters is shown as its first 42 characters followed by "...", a
\* description of 45 characters or fewer is shown unchanged, and the stored
\* descriptions stay the ones the invoices were created with.
C18_PdfDescriptions ==
  /\ \A p \in Procs :
       Rendered(p) =>
         \A k \in DOMAIN resp[p].pdf[1].customers :
           \E f \in Orderings(StoredItems(p, resp[p].data[1].customers[k].name)) :
             SectionDescriptions(p, k, f)
  /\ {x.description : x \in db.items} =
       SuppliedDescriptions(LongBody) \cup SuppliedDescriptions(FullBody)

\* A document shows the 50-character description as 42 characters and
\* "...", next to the 45-character one shown whole, and the stored
\* description still has its 50 characters.
C18_FiftyCharactersShown ==
  \E p \in Procs :
    /\ Rendered(p)
    /\ \E k \in DOMAIN resp[p].pdf[1].customers :
         LET t == resp[p].pdf[1].customers[k].table
         IN /\ \E i \in DOMAIN t :
                 t[i].description = "stainless hexagon socket head cap screw M8..."
            /\ \E i \in DOMAIN t :
                 t[i].description = "zinc plated flat washer for M8 bolts, pack 10"
    /\ \E x \in db.items : x.description.t = "str" /\ Len(x.description.s) = 50

\* C19: a create_invoice whose body is missing or empty answers 400 at
\* once, and leaves the committed rows, the id sequences and the number the
\* next create_invoice of any user would take as they were.
C19_CreateWithoutBody ==
  [][\A p \in Procs :
       (StartedBy(p) /\ Started(p).op = "create" /\ Body(Started(p).body).empty) =>
         /\ pc'[p] = "idle"
         /\ ValidationError(resp'[p]) /\ resp'[p].status = 400
         /\ db' = db /\ seq' = seq
         /\ \A u \in Users : next_invoice_number(db', u) = next_invoice_number(db, u)]_vars

\* A create_invoice without a body has been answered.
C19_AnsweredWithoutBody ==
  \E p \in Procs :
    /\ pc[p] = "idle"
    /\ resp[p].req.op = "create" /\ Body(resp[p].req.body).empty
    /\ resp[p].status = 400 /\ resp[p].error = "No JSON body"

\* The step in which p's generate_pdf returns a document.
PdfReturns(p) ==
  /\ pc[p] \in {"pdf_customers", "pdf_items"} /\ pc'[p] = "idle"
  /\ resp'[p].status = 200

\* C20: a document generate_pdf returns is the same as the document last
\* returned for the same invoice, when that invoice has the same header,
\* customers and items as it had then and nothing was written in between.
C20_PdfDeterministic ==
  [][\A p, q \in Procs :
       (/\ PdfReturns(p) /\ Rendered(q)
        /\ resp'[p].req.user = resp[q].req.user /\ resp'[p].req.num = resp[q].req.num
        /\ db' = db
        /\ \A a \in Aggregates(db) : EntryEquals(resp[q].data[1], a) = EntryEquals(resp'[p].data[1], a)
        /\ \E a \in Aggregates(db) : EntryEquals(resp'[p].data[1], a)) =>
         resp'[p].pdf = resp[q].pdf]_vars

\* The handlers that only read.
ReadOps == {"list", "categorize", "pdf", "reset"}

\* Slot p takes a step of request r in this step.
StepOf(p) ==
  \/ StartedBy(p)
  \/ pc[p] # "idle" /\ (pc'[p] # pc[p] \/ loc'[p] # loc[p])

StepRequest(p) == IF pc[p] = "idle" THEN Started(p) ELSE req[p]

\* C21: every step of list_invoices, categorize, generate_pdf and
\* reset_invoice_number, the steps that answer with an error included,
\* leaves the stored invoices, customers and items and the id sequences as
\* they were; reset_invoice_number answers the largest invoice number of
\* the user, or 999 when the user has none.
C21_ReadOnly ==
  [][\A p \in Procs :
       (StepOf(p) /\ StepRequest(p).op \in ReadOps) =>
         /\ db' = db /\ seq' = seq
         /\ (StepRequest(p).op = "reset" =>
               /\ resp'[p].status = 200
               /\ resp'[p].invoice_number =
                    Num(IF NumbersOf(db, StepRequest(p).user) = {} THEN 999
                        ELSE Max(NumbersOf(db, StepRequest(p).user))))]_vars

\* C22: a create_invoice that answers 201 to a body whose invoice_number is
\* an integer n, 0 included, has stored the new invoice under n and returns
\* n; and one whose body has an invoice_number went on to its INSERT with
\* that number, not with one the numbering made.
C22_ExplicitNumberKept ==
  [][\A p \in Procs :
       LET given == Body(req[p].body).invoice_number
       IN /\ (CreateReturns(p) /\ resp'[p].status = 201 /\ given.t = "num") =>
               /\ resp'[p].invoice_number = given
               /\ \E r \in db'.invoices :
                    /\ r.id = resp'[p].inv_id /\ r.user_id = req[p].user
                    /\ r.invoice_number = given.n
          /\ (StartedBy(p) /\ Started(p).op = "create" /\ pc'[p] = "create_insert"
                /\ Body(Started(p).body).invoice_number.t = "num") =>
               loc'[p].invoice_number = Body(Started(p).body).invoice_number]_vars

\* C23: in every committed state every customer row belongs to a stored
\* invoice and every item row to a stored customer, whatever create_invoice,
\* modify_invoice and delete_invoice requests ran and however their
\* statements interleaved.
C23_NoOrphans ==
  /\ \A c \in db.customers : c.invoice_id \in Ids(db.invoices)
  /\ \A x \in db.items : x.customer_id \in Ids(db.customers)

\* A modify_invoice raced a delete_invoice of the same invoice: it looked
\* the invoice up, the delete committed, and its INSERT of a customer found
\* the invoice gone.
C23_ReplaceRacedDelete ==
  \E p \in Procs :
    /\ resp[p].req.op = "replace" /\ resp[p].raised = "ForeignKeyViolation"
    /\ resp[p].inv_id \notin Ids(db.invoices)

\* C24: generate_pdf answers a request for an invoice the user holds with
\* a document, whatever optional fields the invoice was created without and
\* however few customers or items it has, and answers 404 only when the
\* user holds no invoice under the number.
C24_ExportAlwaysWorks ==
  \A p \in Procs :
    resp[p].req.op = "pdf" =>
      IF Keyed(db, resp[p].req.user, resp[p].req.num) # {}
      THEN Rendered(p)
      ELSE NotFound(resp[p])

====
